---- MODULE Spec2Model ----
(***************************************************************************)
(* Model of the push-notification fan-out server (src/server.js).          *)
(*                                                                         *)
(* Each HTTP request is a handler invocation with its own local variables; *)
(* the variables below are functions over the request slots Reqs.  A       *)
(* handler runs synchronously between two awaits, so one action of the     *)
(* model is one stretch of a handler from the resolution of an awaited     *)
(* call (a store read, messaging.sendAll, messaging.send) up to the next   *)
(* await or up to the response.  pc[r] names the call the handler awaits.  *)
(*                                                                         *)
(* Ghost variables bulkCalls, sends and reads log the calls a request has  *)
(* issued to the provider and to the store; the code does not keep them.   *)
(***************************************************************************)
EXTENDS Integers, Sequences, FiniteSets, TLC

(* ------------------------------ bounds -------------------------------- *)

\* src/server.js:414 sets BATCH_SIZE = 500.  The model scales the chunk size
\* down so that lists of several chunks are explored with every pattern of
\* provider answers.
BATCH_SIZE == 2
\* longest token list of a /notify-batch request
MaxTokens == 3
\* largest delivery token value (0 stands for "no token")
MaxTokenId == 2
\* longest member list of a project
MaxMembers == 3

(* ------------------------------ values -------------------------------- *)

Reqs == {1, 2}

TokenIds == 1..MaxTokenId
NoToken == 0
\* the users of the store: the owner a project may name and two others
Uids == {1, 2, 3}
NoUid == 0
NoEmail == 0
EmailOf(uid) == 100 + uid
Emails == {EmailOf(u) : u \in Uids}

Min(a, b) == IF a < b THEN a ELSE b

\* mutant: a slice that takes its end position too
SliceInclusive(s, from, to) == SubSeq(s, from + 1, Min(to + 1, Len(s)))

\* Array.prototype.slice(from, to) on 0-based indices, end exclusive
Slice(s, from, to) == SubSeq(s, from + 1, Min(to, Len(s)))

RECURSIVE SeqsUpTo(_, _)
SeqsUpTo(S, n) ==
    IF n = 0 THEN {<<>>}
    ELSE LET shorter == SeqsUpTo(S, n - 1)
         IN  shorter \cup {Append(s, x) : s \in {t \in shorter : Len(t) = n - 1}, x \in S}

CountTrue(f) == Cardinality({n \in DOMAIN f : f[n]})
CountFalse(f) == Cardinality({n \in DOMAIN f : ~f[n]})

(* ------------------------------ state --------------------------------- *)

VARIABLES
    firebaseInitialized,  \* module flag set by initializeFirebase()
    projectDoc,           \* the store's project record
    userDocs,             \* the store's user records, by uid
    kind,                 \* which route the request is for
    pc,                   \* the await the handler is suspended at
    input,                \* req.body
    messages,             \* const messages
    i,                    \* /notify-batch: chunk loop index (0-based)
    j,                    \* index of the message of the individual send awaited
    results,              \* /notify-batch: const results
    successCount,
    failureCount,
    isAdmin,              \* /notify-task
    adminUid,             \* /notify-task
    assignedUsers,        \* /notify-task
    k,                    \* /notify-task: index in assignedUsers of the uid read
    targetTokens,         \* /notify-task
    recipients,           \* /notify-task
    response,             \* what res.status(..).json(..) sent
    bulkCalls,            \* ghost: the messaging.sendAll calls issued
    sends,                \* ghost: the messaging.send calls issued
    reads                 \* ghost: the store reads issued

storeVars == <<firebaseInitialized, projectDoc, userDocs>>
taskVars == <<isAdmin, adminUid, assignedUsers, k, targetTokens, recipients>>
batchVars == <<i, results>>
vars == <<firebaseInitialized, projectDoc, userDocs, kind, pc, input, messages,
          i, j, results, successCount, failureCount, isAdmin, adminUid,
          assignedUsers, k, targetTokens, recipients, response, bulkCalls,
          sends, reads>>

(* ----------------------------- responses ------------------------------ *)

NoResponse ==
    [status |-> 0, success |-> FALSE, error |-> "", notified |-> -1,
     failed |-> -1, total |-> -1, results |-> <<>>, recipients |-> <<>>,
     messageId |-> "", code |-> ""]

ErrorResponse(status, error) ==
    [NoResponse EXCEPT !.status = status, !.error = error]

\* res.status(200).json({success: true, notified, failed, total, results})
BatchResponse(sc, fc, tokens, res) ==
    [NoResponse EXCEPT !.status = 200, !.success = TRUE, !.notified = sc,
                       !.failed = fc, !.total = Len(tokens), !.results = res]

\* mutant: a handler without its "if (!firebaseInitialized)" guard
NotInitializedUnchecked == FALSE

\* if (!firebaseInitialized) at the head of every notify handler
NotInitialized == ~firebaseInitialized

Respond(r, resp) ==
    /\ response' = [response EXCEPT ![r] = resp]
    /\ pc' = [pc EXCEPT ![r] = "done"]


(* ------------------------------ payloads ------------------------------ *)

(* A string the code tests or concatenates is a sequence of one-character  *)
(* strings; <<>> is the empty string and stands for an absent one too      *)
(* (both are falsy).  Strings the code only copies are TLA+ strings.       *)

\* "https://todo-app-virid-five.vercel.app"
DefaultOrigin ==
    <<"h", "t", "t", "p", "s", ":", "/", "/", "t", "o", "d", "o", "-", "a",
      "p", "p", "-", "v", "i", "r", "i", "d", "-", "f", "i", "v", "e", ".",
      "v", "e", "r", "c", "e", "l", ".", "a", "p", "p">>

\* "/icons/icon.png"
DefaultIcon == "/icons/icon.png"

Http == <<"h", "t", "t", "p">>
Slash == <<"/">>

\* data.origin values: absent, "https://x"
Origins == {<<>>, <<"h", "t", "t", "p", "s", ":", "/", "/", "x">>}

\* data.link values: absent, "/v", "v", "https://y/z", "http://y", "ftp://y",
\* "mailto:a", "httpx/v"
Links ==
    {<<>>,
     <<"/", "v">>,
     <<"v">>,
     <<"h", "t", "t", "p", "s", ":", "/", "/", "y", "/", "z">>,
     <<"h", "t", "t", "p", ":", "/", "/", "y">>,
     <<"f", "t", "p", ":", "/", "/", "y">>,
     <<"m", "a", "i", "l", "t", "o", ":", "a">>,
     <<"h", "t", "t", "p", "x", "/", "v">>}

\* req.body.data of /notify and /notify-batch: link, origin, icon, badge
Datas == [link : Links, origin : Origins, icon : {"", "/i.png"}, badge : {"", "/b.png"}]

NoData == [link |-> <<>>, origin |-> <<>>, icon |-> "", badge |-> ""]

\* String.prototype.startsWith
StartsWith(str, prefix) ==
    Len(str) >= Len(prefix) /\ SubSeq(str, 1, Len(prefix)) = prefix

\* data?.origin || "https://todo-app-virid-five.vercel.app"
BaseOrigin(data) == IF data.origin # <<>> THEN data.origin ELSE DefaultOrigin

\* webpush.fcmOptions.link of /notify and /notify-batch
BuildLink(data) ==
    IF data.link # <<>>
    THEN IF StartsWith(data.link, Http)
         THEN data.link
         ELSE BaseOrigin(data)
                  \o (IF StartsWith(data.link, Slash) THEN data.link ELSE Slash \o data.link)
    ELSE BaseOrigin(data) \o Slash

\* the message of /notify and /notify-batch for one token; the caller's data
\* carries no timestamp of the server's
BuildMessage(token, data) ==
    [token |-> token,
     title |-> "title",
     body |-> "body",
     data |-> data,
     link |-> BuildLink(data),
     icon |-> IF data.icon # "" THEN data.icon ELSE DefaultIcon,
     badge |-> IF data.badge # "" THEN data.badge ELSE DefaultIcon,
     sound |-> "default",
     timestamp |-> 0]

\* the readings of Date.now() while one message list is built: the
\* millisecond the map starts in and the next one
Clock == {1, 2}

\* Date.now() read once per message while a list of n messages is built: the
\* clock does not go back
Stamps(n) ==
    {st \in [1..n -> Clock] : \A a, b \in 1..n : a <= b => st[a] <= st[b]}

\* `${baseUrl}/view/${projectId}/${encodeURIComponent(projectName)}`
TaskLink(data) == BaseOrigin(data) \o <<"/", "v", "i", "e", "w", "/", "p", "/", "n">>

\* the message of /notify-task for one token, built at clock reading stamp
BuildTaskMessage(token, data, stamp) ==
    [token |-> token,
     title |-> "New Task Added",
     body |-> "body",
     data |-> NoData,
     link |-> TaskLink(data),
     icon |-> DefaultIcon,
     badge |-> DefaultIcon,
     sound |-> "default",
     timestamp |-> stamp]

\* targetTokens.map(token => ({token: token, ...}))
BuildTaskMessages(tokens, data, stamps) ==
    [n \in 1..Len(tokens) |-> BuildTaskMessage(tokens[n], data, stamps[n])]

(* ------------------------- POST /notify-batch ------------------------- *)

\* mutant: the validation without its "tokens.length === 0" test
TokensInvalidNoLength(body) == ~body.tokensIsArray

\* !tokens || !Array.isArray(tokens) || tokens.length === 0
TokensInvalid(body) == ~body.tokensIsArray \/ Len(body.tokens) = 0

\* tokens.map((token) => ({token: token, ...}))
BuildMessages(tokens, data) == [n \in 1..Len(tokens) |-> BuildMessage(tokens[n], data)]

\* batchResponse.responses.forEach((response, index) => results.push(...))
BulkOutcomes(batch, responses) ==
    [n \in 1..Len(batch) |-> [token |-> batch[n].token, success |-> responses[n]]]

\* the list the catch block's "for (const message of messages)" walks
FallbackMessages(r) == messages[r]

\* the handler up to its first await: guards, validation, messages, first chunk
BatchBegin(r) ==
    /\ kind[r] = "batch"
    /\ pc[r] = "start"
    /\ IF NotInitialized
       THEN /\ Respond(r, ErrorResponse(500, "Firebase not initialized"))
            /\ UNCHANGED <<messages, bulkCalls>>
       ELSE IF TokensInvalid(input[r])
       THEN /\ Respond(r, ErrorResponse(400, "Missing or invalid tokens array"))
            /\ UNCHANGED <<messages, bulkCalls>>
       ELSE IF ~input[r].required
       THEN /\ Respond(r, ErrorResponse(400, "Missing required fields: title or body"))
            /\ UNCHANGED <<messages, bulkCalls>>
       ELSE LET msgs == BuildMessages(input[r].tokens, input[r].data)
            IN  /\ messages' = [messages EXCEPT ![r] = msgs]
                /\ IF 0 < Len(msgs)
                   THEN /\ bulkCalls' = [bulkCalls EXCEPT ![r] =
                               Append(@, [at |-> 0, batch |-> Slice(msgs, 0, BATCH_SIZE)])]
                        /\ pc' = [pc EXCEPT ![r] = "sendAll"]
                        /\ UNCHANGED response
                   ELSE /\ Respond(r, BatchResponse(0, 0, input[r].tokens, <<>>))
                        /\ UNCHANGED bulkCalls
    /\ UNCHANGED <<storeVars, taskVars, batchVars, kind, input, j, successCount,
                   failureCount, sends, reads>>

\* messaging.sendAll(batch) resolves: one response per message of the batch
BulkReturns(r) ==
    /\ kind[r] = "batch"
    /\ pc[r] = "sendAll"
    /\ LET batch == Slice(messages[r], i[r], i[r] + BATCH_SIZE)
       IN  \E responses \in [1..Len(batch) -> BOOLEAN] :
             LET res == results[r] \o BulkOutcomes(batch, responses)
                 sc == successCount[r] + CountTrue(responses)
                 fc == failureCount[r] + CountFalse(responses)
                 ni == i[r] + BATCH_SIZE
             IN  /\ results' = [results EXCEPT ![r] = res]
                 /\ successCount' = [successCount EXCEPT ![r] = sc]
                 /\ failureCount' = [failureCount EXCEPT ![r] = fc]
                 /\ i' = [i EXCEPT ![r] = ni]
                 /\ IF ni < Len(messages[r])
                    THEN /\ bulkCalls' = [bulkCalls EXCEPT ![r] =
                                Append(@, [at |-> ni,
                                           batch |-> Slice(messages[r], ni, ni + BATCH_SIZE)])]
                         /\ UNCHANGED <<pc, response>>
                    ELSE /\ Respond(r, BatchResponse(sc, fc, input[r].tokens, res))
                         /\ UNCHANGED bulkCalls
    /\ UNCHANGED <<storeVars, taskVars, kind, input, messages, j, sends, reads>>

\* mutant: no catch (batchError), the rejection reaching the handler's catch
BulkThrowsEscapes(r) ==
    /\ kind[r] = "batch"
    /\ pc[r] = "sendAll"
    /\ Respond(r, ErrorResponse(500, "Failed to send batch notifications"))
    /\ UNCHANGED <<storeVars, taskVars, batchVars, kind, input, messages, j,
                   successCount, failureCount, bulkCalls, sends, reads>>

\* messaging.sendAll(batch) rejects: the catch block starts its loop
BulkThrows(r) ==
    /\ kind[r] = "batch"
    /\ pc[r] = "sendAll"
    /\ j' = [j EXCEPT ![r] = 0]
    /\ sends' = [sends EXCEPT ![r] =
           Append(@, [at |-> 0, token |-> FallbackMessages(r)[1].token])]
    /\ pc' = [pc EXCEPT ![r] = "send"]
    /\ UNCHANGED <<storeVars, taskVars, batchVars, kind, input, messages,
                   successCount, failureCount, response, bulkCalls, reads>>

\* mutant: successCount and failureCount declared at module level, one pair
\* of counters for all requests
BatchAfterSendShared(r, ok) ==
    LET msgs == FallbackMessages(r)
        res == Append(results[r], [token |-> msgs[j[r] + 1].token, success |-> ok])
        sc == successCount[r] + (IF ok THEN 1 ELSE 0)
        fc == failureCount[r] + (IF ok THEN 0 ELSE 1)
        nj == j[r] + 1
    IN  /\ results' = [results EXCEPT ![r] = res]
        /\ successCount' = [q \in Reqs |-> sc]
        /\ failureCount' = [q \in Reqs |-> fc]
        /\ j' = [j EXCEPT ![r] = nj]
        /\ IF nj < Len(msgs)
           THEN /\ sends' = [sends EXCEPT ![r] =
                       Append(@, [at |-> nj, token |-> msgs[nj + 1].token])]
                /\ UNCHANGED <<pc, response>>
           ELSE /\ Respond(r, BatchResponse(sc, fc, input[r].tokens, res))
                /\ UNCHANGED sends

\* the rest of the catch block's loop body, then the next send or the response
BatchAfterSend(r, ok) ==
    LET msgs == FallbackMessages(r)
        res == Append(results[r], [token |-> msgs[j[r] + 1].token, success |-> ok])
        sc == successCount[r] + (IF ok THEN 1 ELSE 0)
        fc == failureCount[r] + (IF ok THEN 0 ELSE 1)
        nj == j[r] + 1
    IN  /\ results' = [results EXCEPT ![r] = res]
        /\ successCount' = [successCount EXCEPT ![r] = sc]
        /\ failureCount' = [failureCount EXCEPT ![r] = fc]
        /\ j' = [j EXCEPT ![r] = nj]
        /\ IF nj < Len(msgs)
           THEN /\ sends' = [sends EXCEPT ![r] =
                       Append(@, [at |-> nj, token |-> msgs[nj + 1].token])]
                /\ UNCHANGED <<pc, response>>
           ELSE /\ Respond(r, BatchResponse(sc, fc, input[r].tokens, res))
                /\ UNCHANGED sends

\* messaging.send(message) resolves inside the fallback loop
BatchSendReturns(r) ==
    /\ kind[r] = "batch"
    /\ pc[r] = "send"
    /\ BatchAfterSend(r, TRUE)
    /\ UNCHANGED <<storeVars, taskVars, kind, input, messages, i, bulkCalls, reads>>

\* messaging.send(message) rejects inside the fallback loop: the inner catch
BatchSendThrows(r) ==
    /\ kind[r] = "batch"
    /\ pc[r] = "send"
    /\ BatchAfterSend(r, FALSE)
    /\ UNCHANGED <<storeVars, taskVars, kind, input, messages, i, bulkCalls, reads>>

(* --------------------------- the record store ------------------------- *)

(* The store is external and the handlers only read it.  A record is fixed *)
(* the first time a request reads it (known becomes TRUE) and every later  *)
(* read, by any request, returns the same record.                          *)

UnreadProject == [known |-> FALSE, exists |-> FALSE, createdBy |-> NoUid, users |-> <<>>]
UnreadUser == [known |-> FALSE, exists |-> FALSE, email |-> NoEmail, fcmToken |-> NoToken]

\* projectDoc.exists, projectData.createdBy, projectData.users || []
ProjectDocs ==
    {[known |-> TRUE, exists |-> FALSE, createdBy |-> NoUid, users |-> <<>>]}
    \cup {[known |-> TRUE, exists |-> TRUE, createdBy |-> c, users |-> us] :
             c \in {NoUid, 1}, us \in SeqsUpTo(Uids, MaxMembers)}

\* userDoc.exists, userData.email, userData.fcmToken
UserDocs(uid) ==
    {[known |-> TRUE, exists |-> FALSE, email |-> NoEmail, fcmToken |-> NoToken]}
    \cup {[known |-> TRUE, exists |-> TRUE, email |-> e, fcmToken |-> t] :
             e \in {NoEmail, EmailOf(uid)}, t \in {NoToken} \cup TokenIds}

\* firestore.collection("projects").doc(projectId).get()
ProjectGet == IF projectDoc.known THEN {projectDoc} ELSE ProjectDocs

\* firestore.collection("users").doc(uid).get()
UserGet(uid) == IF userDocs[uid].known THEN {userDocs[uid]} ELSE UserDocs(uid)

ReadOf(coll, id) == [coll |-> coll, id |-> id]

(* -------------------------- POST /notify-task ------------------------- *)

\* mutant: the handler without its "if (!projectDoc.exists)" answer
ProjectMissingUnchecked(doc) == FALSE

\* !projectDoc.exists
ProjectMissing(doc) == ~doc.exists

\* mutant: an owner defaulted to the first listed member
OwnerOfOrFirstMember(doc) ==
    IF doc.createdBy # NoUid THEN doc.createdBy
    ELSE IF doc.users # <<>> THEN doc.users[1] ELSE NoUid

\* const adminUid = projectData.createdBy
OwnerOf(doc) == doc.createdBy

\* mutant: isAdmin decided without the owner's record
IsAdminDocAlways(doc, addedBy) == TRUE

\* adminDoc.exists && adminDoc.data().email === addedBy
IsAdminDoc(doc, addedBy) == doc.exists /\ doc.email = addedBy

\* userDoc.exists && userData.fcmToken
HasToken(doc) == doc.exists /\ doc.fcmToken # NoToken

\* userData.email || uid
LabelOf(doc, uid) == IF doc.email # NoEmail THEN doc.email ELSE uid

\* mutant: the loop without its "if (uid === adminUid) continue"
NextMemberNoSkip(users, aUid, from) == IF from <= Len(users) THEN from ELSE 0

\* "for (const uid of assignedUsers) { if (uid === adminUid) continue; ..."
\* the position (1-based) of the next uid the loop reads, from position from; 0 if none
NextMember(users, aUid, from) ==
    LET rest == {n \in from..Len(users) : users[n] # aUid}
    IN  IF rest = {} THEN 0 ELSE CHOOSE n \in rest : \A m \in rest : n <= m

\* mutant: the non-admin branch without its "if (adminData.fcmToken)"
OwnerTargetsNoCheck(doc) == IF doc.exists THEN <<doc.fcmToken>> ELSE <<>>

\* the non-admin branch's pushes
OwnerTargets(doc) == IF HasToken(doc) THEN <<doc.fcmToken>> ELSE <<>>

\* mutant: an empty recipient list answered as a failure
NoRecipientsFailure == ErrorResponse(404, "No recipients with FCM tokens")

\* res.status(200).json({success: true, message: "No recipients ...", notified: 0})
NoRecipientsResponse ==
    [NoResponse EXCEPT !.status = 200, !.success = TRUE, !.notified = 0]

\* res.status(200).json({success: true, notified, failed, recipients})
TaskResponse(sc, fc, rec) ==
    [NoResponse EXCEPT !.status = 200, !.success = TRUE, !.notified = sc,
                       !.failed = fc, !.recipients = rec]

\* from "if (targetTokens.length === 0)" to the first messaging.send
Finish(r, tt, rec) ==
    /\ targetTokens' = [targetTokens EXCEPT ![r] = tt]
    /\ recipients' = [recipients EXCEPT ![r] = rec]
    /\ IF Len(tt) = 0
       THEN /\ Respond(r, NoRecipientsResponse)
            /\ UNCHANGED <<messages, sends, j>>
       ELSE /\ \E stamps \in Stamps(Len(tt)) :
                   messages' = [messages EXCEPT ![r] =
                                   BuildTaskMessages(tt, input[r].data, stamps)]
            /\ sends' = [sends EXCEPT ![r] = Append(@, [at |-> 0, token |-> tt[1]])]
            /\ j' = [j EXCEPT ![r] = 0]
            /\ pc' = [pc EXCEPT ![r] = "send"]
            /\ UNCHANGED response

\* from "if (isAdmin)" to the first await of the chosen branch
Branch(r, adm, aUid, users) ==
    /\ isAdmin' = [isAdmin EXCEPT ![r] = adm]
    /\ IF adm
       THEN LET n == NextMember(users, aUid, 1)
            IN  IF n # 0
                THEN /\ k' = [k EXCEPT ![r] = n]
                     /\ reads' = [reads EXCEPT ![r] = Append(@, ReadOf("users", users[n]))]
                     /\ pc' = [pc EXCEPT ![r] = "getUser"]
                     /\ UNCHANGED <<targetTokens, recipients, messages, sends, j, response>>
                ELSE /\ Finish(r, <<>>, <<>>)
                     /\ UNCHANGED <<k, reads>>
       ELSE IF aUid # NoUid
       THEN /\ reads' = [reads EXCEPT ![r] = Append(@, ReadOf("users", aUid))]
            /\ pc' = [pc EXCEPT ![r] = "getAdmin2"]
            /\ UNCHANGED <<k, targetTokens, recipients, messages, sends, j, response>>
       ELSE /\ Finish(r, <<>>, <<>>)
            /\ UNCHANGED <<k, reads>>

\* the handler up to its first await: guards, validation, the project read
TaskBegin(r) ==
    /\ kind[r] = "task"
    /\ pc[r] = "start"
    /\ IF NotInitialized
       THEN /\ Respond(r, ErrorResponse(500, "Firebase not initialized"))
            /\ UNCHANGED reads
       ELSE IF ~input[r].required
       THEN /\ Respond(r, ErrorResponse(400, "Missing required fields"))
            /\ UNCHANGED reads
       ELSE /\ reads' = [reads EXCEPT ![r] = Append(@, ReadOf("projects", 1))]
            /\ pc' = [pc EXCEPT ![r] = "getProject"]
            /\ UNCHANGED response
    /\ UNCHANGED <<storeVars, taskVars, batchVars, kind, input, messages, j,
                   successCount, failureCount, bulkCalls, sends>>

\* a store read rejects: the inner catch answers 500
StoreThrows(r) ==
    /\ kind[r] = "task"
    /\ pc[r] \in {"getProject", "getAdmin", "getUser", "getAdmin2"}
    /\ Respond(r, ErrorResponse(500, "Failed to send notifications"))
    /\ UNCHANGED <<storeVars, taskVars, batchVars, kind, input, messages, j,
                   successCount, failureCount, bulkCalls, sends, reads>>

\* the project read resolves
ProjectRead(r) ==
    /\ kind[r] = "task"
    /\ pc[r] = "getProject"
    /\ \E doc \in ProjectGet :
         /\ projectDoc' = doc
         /\ IF ProjectMissing(doc)
            THEN /\ Respond(r, ErrorResponse(404, "Project not found"))
                 /\ UNCHANGED <<taskVars, messages, sends, j, reads>>
            ELSE /\ adminUid' = [adminUid EXCEPT ![r] = OwnerOf(doc)]
                 /\ assignedUsers' = [assignedUsers EXCEPT ![r] = doc.users]
                 /\ IF OwnerOf(doc) # NoUid
                    THEN /\ reads' = [reads EXCEPT ![r] =
                                Append(@, ReadOf("users", OwnerOf(doc)))]
                         /\ pc' = [pc EXCEPT ![r] = "getAdmin"]
                         /\ UNCHANGED <<isAdmin, k, targetTokens, recipients,
                                        messages, sends, j, response>>
                    ELSE Branch(r, FALSE, OwnerOf(doc), doc.users)
    /\ UNCHANGED <<firebaseInitialized, userDocs, batchVars, kind, input,
                   successCount, failureCount, bulkCalls>>

\* the read of the owner's record that decides isAdmin resolves
AdminRead(r) ==
    /\ kind[r] = "task"
    /\ pc[r] = "getAdmin"
    /\ \E doc \in UserGet(adminUid[r]) :
         /\ userDocs' = [userDocs EXCEPT ![adminUid[r]] = doc]
         /\ Branch(r, IsAdminDoc(doc, input[r].addedBy), adminUid[r], assignedUsers[r])
    /\ UNCHANGED <<firebaseInitialized, projectDoc, adminUid, assignedUsers,
                   batchVars, kind, input, successCount, failureCount, bulkCalls>>

\* a member's record read in the admin branch resolves
UserRead(r) ==
    /\ kind[r] = "task"
    /\ pc[r] = "getUser"
    /\ LET uid == assignedUsers[r][k[r]]
       IN  \E doc \in UserGet(uid) :
             LET tt == IF HasToken(doc) THEN Append(targetTokens[r], doc.fcmToken)
                       ELSE targetTokens[r]
                 rec == IF HasToken(doc) THEN Append(recipients[r], LabelOf(doc, uid))
                        ELSE recipients[r]
                 n == NextMember(assignedUsers[r], adminUid[r], k[r] + 1)
             IN  /\ userDocs' = [userDocs EXCEPT ![uid] = doc]
                 /\ IF n # 0
                    THEN /\ k' = [k EXCEPT ![r] = n]
                         /\ reads' = [reads EXCEPT ![r] =
                                Append(@, ReadOf("users", assignedUsers[r][n]))]
                         /\ targetTokens' = [targetTokens EXCEPT ![r] = tt]
                         /\ recipients' = [recipients EXCEPT ![r] = rec]
                         /\ UNCHANGED <<pc, messages, sends, j, response>>
                    ELSE /\ Finish(r, tt, rec)
                         /\ UNCHANGED <<k, reads>>
    /\ UNCHANGED <<firebaseInitialized, projectDoc, isAdmin, adminUid, assignedUsers,
                   batchVars, kind, input, successCount, failureCount, bulkCalls>>

\* the non-admin branch's read of the owner's record resolves
Admin2Read(r) ==
    /\ kind[r] = "task"
    /\ pc[r] = "getAdmin2"
    /\ \E doc \in UserGet(adminUid[r]) :
         /\ userDocs' = [userDocs EXCEPT ![adminUid[r]] = doc]
         /\ Finish(r, OwnerTargets(doc),
                   IF HasToken(doc) THEN <<LabelOf(doc, adminUid[r])>> ELSE <<>>)
    /\ UNCHANGED <<firebaseInitialized, projectDoc, isAdmin, adminUid, assignedUsers,
                   k, batchVars, kind, input, successCount, failureCount, bulkCalls,
                   reads>>

\* mutant: a send loop whose catch does not count the failure
TaskAfterSendUncounted(r, ok) ==
    LET sc == successCount[r] + (IF ok THEN 1 ELSE 0)
        fc == failureCount[r]
        nj == j[r] + 1
    IN  /\ successCount' = [successCount EXCEPT ![r] = sc]
        /\ failureCount' = [failureCount EXCEPT ![r] = fc]
        /\ j' = [j EXCEPT ![r] = nj]
        /\ IF nj < Len(messages[r])
           THEN /\ sends' = [sends EXCEPT ![r] =
                       Append(@, [at |-> nj, token |-> messages[r][nj + 1].token])]
                /\ UNCHANGED <<pc, response>>
           ELSE /\ Respond(r, TaskResponse(sc, fc, recipients[r]))
                /\ UNCHANGED sends

\* the rest of the send loop's body, then the next send or the response
TaskAfterSend(r, ok) ==
    LET sc == successCount[r] + (IF ok THEN 1 ELSE 0)
        fc == failureCount[r] + (IF ok THEN 0 ELSE 1)
        nj == j[r] + 1
    IN  /\ successCount' = [successCount EXCEPT ![r] = sc]
        /\ failureCount' = [failureCount EXCEPT ![r] = fc]
        /\ j' = [j EXCEPT ![r] = nj]
        /\ IF nj < Len(messages[r])
           THEN /\ sends' = [sends EXCEPT ![r] =
                       Append(@, [at |-> nj, token |-> messages[r][nj + 1].token])]
                /\ UNCHANGED <<pc, response>>
           ELSE /\ Respond(r, TaskResponse(sc, fc, recipients[r]))
                /\ UNCHANGED sends

\* messaging.send(message) resolves inside the send loop
TaskSendReturns(r) ==
    /\ kind[r] = "task"
    /\ pc[r] = "send"
    /\ TaskAfterSend(r, TRUE)
    /\ UNCHANGED <<storeVars, taskVars, batchVars, kind, input, messages,
                   bulkCalls, reads>>

\* mutant: a send loop without its try/catch, the rejection reaching the handler's catch
TaskSendThrowsAborts(r) ==
    /\ kind[r] = "task"
    /\ pc[r] = "send"
    /\ Respond(r, ErrorResponse(500, "Failed to send notifications"))
    /\ UNCHANGED <<storeVars, taskVars, batchVars, kind, input, messages, j,
                   successCount, failureCount, bulkCalls, sends, reads>>

\* messaging.send(message) rejects inside the send loop: the loop's catch
TaskSendThrows(r) ==
    /\ kind[r] = "task"
    /\ pc[r] = "send"
    /\ TaskAfterSend(r, FALSE)
    /\ UNCHANGED <<storeVars, taskVars, batchVars, kind, input, messages,
                   bulkCalls, reads>>


(* ----------------------------- POST /notify --------------------------- *)

\* provider message ids
MessageIds == {"m1", "m2"}

\* error.code of a rejected messaging.send; "" when the error carries none
ErrorCodes ==
    {"messaging/invalid-registration-token",
     "messaging/registration-token-not-registered",
     "messaging/internal-error",
     "messaging/invalid-argument",
     ""}

\* mutant: a classification that knows one of the two codes only
IsInvalidTokenCodeOne(code) == code = "messaging/invalid-registration-token"

\* error.code === "messaging/invalid-registration-token" ||
\* error.code === "messaging/registration-token-not-registered"
IsInvalidTokenCode(code) ==
    \/ code = "messaging/invalid-registration-token"
    \/ code = "messaging/registration-token-not-registered"

\* the handler up to its await: guards, validation, the message, the send
SingleBegin(r) ==
    /\ kind[r] = "single"
    /\ pc[r] = "start"
    /\ IF NotInitialized
       THEN /\ Respond(r, ErrorResponse(500, "Firebase not initialized"))
            /\ UNCHANGED <<messages, sends>>
       ELSE IF ~input[r].required
       THEN /\ Respond(r, ErrorResponse(400, "Missing required fields: token, title, or body"))
            /\ UNCHANGED <<messages, sends>>
       ELSE /\ messages' = [messages EXCEPT ![r] =
                   <<BuildMessage(input[r].token, input[r].data)>>]
            /\ sends' = [sends EXCEPT ![r] = Append(@, [at |-> 0, token |-> input[r].token])]
            /\ pc' = [pc EXCEPT ![r] = "send"]
            /\ UNCHANGED response
    /\ UNCHANGED <<storeVars, taskVars, batchVars, kind, input, j, successCount,
                   failureCount, bulkCalls, reads>>

\* messaging.send(message) resolves with the provider's message id
SingleSendReturns(r) ==
    /\ kind[r] = "single"
    /\ pc[r] = "send"
    /\ \E mid \in MessageIds :
         Respond(r, [NoResponse EXCEPT !.status = 200, !.success = TRUE, !.messageId = mid])
    /\ UNCHANGED <<storeVars, taskVars, batchVars, kind, input, messages, j,
                   successCount, failureCount, bulkCalls, sends, reads>>

\* messaging.send(message) rejects: the handler's catch classifies error.code
SingleSendThrows(r) ==
    /\ kind[r] = "single"
    /\ pc[r] = "send"
    /\ \E code \in ErrorCodes :
         Respond(r, IF IsInvalidTokenCode(code)
                    THEN [ErrorResponse(400, "Invalid or expired FCM token")
                              EXCEPT !.code = code]
                    ELSE [ErrorResponse(500, "Failed to send notification")
                              EXCEPT !.code = code])
    /\ UNCHANGED <<storeVars, taskVars, batchVars, kind, input, messages, j,
                   successCount, failureCount, bulkCalls, sends, reads>>

(* --------------------------- specification ---------------------------- *)

\* the data of the /notify-batch bodies explored: the dispatch does not read
\* data again once the messages are built
BatchDatas ==
    {d \in Datas : /\ d.origin = <<>>
                   /\ d.badge = ""
                   /\ d.icon = (IF d.link = <<>> THEN "/i.png" ELSE "")
                   /\ d.link \in {<<>>, <<"/", "v">>, <<"f", "t", "p", ":", "/", "/", "y">>}}

\* req.body of /notify-batch; required: title and body are present
BatchBodies ==
    [tokensIsArray : BOOLEAN, tokens : SeqsUpTo(TokenIds, MaxTokens),
     required : BOOLEAN, addedBy : {NoEmail}, token : {NoToken}, data : BatchDatas]

\* req.body of /notify-task; required: projectId, addedBy and taskName are
\* present; data.origin is the body's origin, absent in the bodies explored
\* (the origin reaches the link text only)
TaskBodies ==
    [tokensIsArray : {FALSE}, tokens : {<<>>}, required : BOOLEAN, addedBy : Emails,
     token : {NoToken}, data : {NoData}]

\* req.body of /notify; required: token, title and body are present
SingleBodies ==
    [tokensIsArray : {FALSE}, tokens : {<<>>}, required : BOOLEAN, addedBy : {NoEmail},
     token : TokenIds, data : Datas]

NoBody ==
    [tokensIsArray |-> FALSE, tokens |-> <<>>, required |-> FALSE, addedBy |-> NoEmail,
     token |-> NoToken, data |-> NoData]

\* the requests the server may receive
Requests ==
    {[kind |-> "batch", body |-> b] : b \in BatchBodies}
    \cup {[kind |-> "task", body |-> b] : b \in TaskBodies}
    \cup {[kind |-> "single", body |-> b] : b \in SingleBodies}

\* the store before any request has read it
UnreadStore == [project |-> UnreadProject, users |-> [u \in Uids |-> UnreadUser]]

\* the state after module load with the requests of the set active received,
\* each one of the set requests, and the store one of the set stores
InitFrom(active, requests, stores) ==
    /\ firebaseInitialized \in BOOLEAN
    /\ \E st \in stores :
         /\ projectDoc = st.project
         /\ userDocs = st.users
    /\ \E rq \in [active -> requests] :
         /\ kind = [r \in Reqs |-> IF r \in active THEN rq[r].kind ELSE "none"]
         /\ input = [r \in Reqs |-> IF r \in active THEN rq[r].body ELSE NoBody]
    /\ pc = [r \in Reqs |-> IF r \in active THEN "start" ELSE "done"]
    /\ messages = [r \in Reqs |-> <<>>]
    /\ i = [r \in Reqs |-> 0]
    /\ j = [r \in Reqs |-> 0]
    /\ results = [r \in Reqs |-> <<>>]
    /\ successCount = [r \in Reqs |-> 0]
    /\ failureCount = [r \in Reqs |-> 0]
    /\ isAdmin = [r \in Reqs |-> FALSE]
    /\ adminUid = [r \in Reqs |-> NoUid]
    /\ assignedUsers = [r \in Reqs |-> <<>>]
    /\ k = [r \in Reqs |-> 0]
    /\ targetTokens = [r \in Reqs |-> <<>>]
    /\ recipients = [r \in Reqs |-> <<>>]
    /\ response = [r \in Reqs |-> NoResponse]
    /\ bulkCalls = [r \in Reqs |-> <<>>]
    /\ sends = [r \in Reqs |-> <<>>]
    /\ reads = [r \in Reqs |-> <<>>]

\* the state after module load with the requests of the set active received
InitWith(active) == InitFrom(active, Requests, {UnreadStore})

\* one request at a time
Init == InitWith({1})

Next ==
    \E r \in Reqs :
        \/ BatchBegin(r)
        \/ BulkReturns(r)
        \/ BulkThrows(r)
        \/ BatchSendReturns(r)
        \/ BatchSendThrows(r)
        \/ TaskBegin(r)
        \/ StoreThrows(r)
        \/ ProjectRead(r)
        \/ AdminRead(r)
        \/ UserRead(r)
        \/ Admin2Read(r)
        \/ TaskSendReturns(r)
        \/ TaskSendThrows(r)
        \/ SingleBegin(r)
        \/ SingleSendReturns(r)
        \/ SingleSendThrows(r)

Spec == Init /\ [][Next]_vars

\* the requests of the two-request runs: /notify-batch for three tokens and
\* for one, /notify-task by the owner and by another member, /notify
PairRequests ==
    {[kind |-> "batch", body |-> b] :
        b \in {c \in BatchBodies : /\ c.tokensIsArray /\ c.required
                                   /\ c.tokens \in {<<1, 2, 1>>, <<2>>}
                                   /\ c.data.link = <<>>}}
    \cup {[kind |-> "task", body |-> b] :
             b \in {c \in TaskBodies : c.required /\ c.addedBy \in {EmailOf(1), EmailOf(2)}}}
    \cup {[kind |-> "single", body |-> b] :
             b \in {c \in SingleBodies : c.required /\ c.token = 1 /\ c.data = NoData}}

\* the stores of the two-request runs: a project owned by user 1 whose
\* members all have a record, user 3 with or without a token
PairStores ==
    {[project |-> [known |-> TRUE, exists |-> TRUE, createdBy |-> 1, users |-> us],
      users |-> [u \in Uids |->
                    [known |-> TRUE, exists |-> TRUE,
                     email |-> IF u = 2 THEN NoEmail ELSE EmailOf(u),
                     fcmToken |-> IF u = 3 THEN t3 ELSE IF u = 2 THEN 2 ELSE 1]]] :
        us \in {<<2, 3>>, <<1, 2, 2>>}, t3 \in {NoToken, 1}}

\* two requests in flight at once
InitPair == InitFrom({1, 2}, PairRequests, PairStores)

SpecPair == InitPair /\ [][Next]_vars

(* ------------------------------ claims -------------------------------- *)

\* a /notify-batch request that has returned its summary
BatchDone(r) == kind[r] = "batch" /\ pc[r] = "done" /\ response[r].status = 200

\* the number of chunks of a list of n messages
Chunks(n) == (n + BATCH_SIZE - 1) \div BATCH_SIZE

\* the positions (0-based) of the messages of the chunk that starts at position at
ChunkAt(r, at) == at .. (Min(at + BATCH_SIZE, Len(messages[r])) - 1)

\* C1: every summary of a /notify-batch dispatch has notified + failed = total,
\* the number of input tokens.
C1_CountsSumToTotal ==
    \A r \in Reqs :
        BatchDone(r) =>
            /\ response[r].total = Len(input[r].tokens)
            /\ response[r].notified + response[r].failed = response[r].total

\* C2: the outcome list of a /notify-batch dispatch has one entry per input
\* message, entry n carrying the token of message n.
C2_OneOutcomePerMessage ==
    \A r \in Reqs :
        BatchDone(r) =>
            /\ Len(response[r].results) = Len(messages[r])
            /\ \A n \in 1..Len(messages[r]) :
                   n <= Len(response[r].results)
                       => response[r].results[n].token = messages[r][n].token

\* C3: after a bulk call fails wholesale, individual sends go to the messages of
\* the failed chunk (the one that starts at i) and to no other message, and the
\* dispatch ends with exactly one individual send per message of that chunk.
C3_FallbackOnlyFailedChunk ==
    \A r \in Reqs :
        (kind[r] = "batch" /\ sends[r] # <<>>) =>
            /\ \A n \in 1..Len(sends[r]) : sends[r][n].at \in ChunkAt(r, i[r])
            /\ pc[r] = "done" => Len(sends[r]) = Cardinality(ChunkAt(r, i[r]))

\* C4: a /notify-batch dispatch of N messages attempts one bulk call per chunk,
\* ceil(N / BATCH_SIZE) in all, also after a bulk call that failed wholesale.
C4_OneBulkCallPerChunk ==
    \A r \in Reqs :
        BatchDone(r) =>
            /\ Len(bulkCalls[r]) = Chunks(Len(messages[r]))
            /\ \A n \in 1..Len(bulkCalls[r]) : bulkCalls[r][n].at = (n - 1) * BATCH_SIZE

\* C5: no message is submitted more than once in a bulk call nor more than once
\* individually, a message whose chunk's bulk call returned (its chunk starts
\* before i) is never sent individually, and a dispatch makes at most
\* ceil(N / BATCH_SIZE) bulk calls and at most N individual sends.
C5_NoRetryBeyondFallback ==
    \A r \in Reqs :
        kind[r] = "batch" =>
            /\ \A a, b \in 1..Len(bulkCalls[r]) :
                   a # b => bulkCalls[r][a].at # bulkCalls[r][b].at
            /\ \A a, b \in 1..Len(sends[r]) : a # b => sends[r][a].at # sends[r][b].at
            /\ \A n \in 1..Len(sends[r]) : ~(sends[r][n].at < i[r])
            /\ Len(bulkCalls[r]) <= Chunks(Len(messages[r]))
            /\ Len(sends[r]) <= Len(messages[r])

\* C6: a failed individual send never stops the loop it is in.  In the
\* /notify-task send loop and in the /notify-batch fallback loop the sends
\* issued are those of messages 0..j in order, each send that resolved (either
\* way) was counted, the fallback recorded one outcome for it, and the loop ends
\* only after the last message, with the 200 summary.
C6_FailureDoesNotAbort ==
    \A r \in Reqs :
        (kind[r] \in {"batch", "task"} /\ sends[r] # <<>>) =>
            /\ \A n \in 1..Len(sends[r]) :
                   /\ n <= Len(messages[r])
                   /\ sends[r][n] = [at |-> n - 1, token |-> messages[r][n].token]
            /\ pc[r] = "send" => Len(sends[r]) = j[r] + 1
            /\ pc[r] = "done" =>
                   /\ Len(sends[r]) = Len(messages[r])
                   /\ j[r] = Len(messages[r])
                   /\ response[r].status = 200
            /\ kind[r] = "task" =>
                   /\ successCount[r] + failureCount[r] = j[r]
                   /\ pc[r] = "done" =>
                          /\ response[r].notified = successCount[r]
                          /\ response[r].failed = failureCount[r]
            /\ kind[r] = "batch" =>
                   /\ Len(results[r]) = i[r] + j[r]
                   /\ \A n \in 1..j[r] : results[r][i[r] + n].token = messages[r][n].token
                   /\ pc[r] = "done" => response[r].results = results[r]

\* C6 witness: a fallback whose first individual send failed and whose second
\* succeeded, and a summary that reports both.
C6_Witness ==
    \E r \in Reqs :
        /\ BatchDone(r)
        /\ Len(sends[r]) >= 2
        /\ ~response[r].results[i[r] + 1].success
        /\ response[r].results[i[r] + 2].success

\* C7 as stated: /notify-batch with an empty token list answers with a
\* successful summary of zeros and calls the provider not at all.
C7_EmptyDispatchSucceeds ==
    \A r \in Reqs :
        (/\ kind[r] = "batch"
         /\ firebaseInitialized
         /\ input[r].tokensIsArray
         /\ input[r].required
         /\ input[r].tokens = <<>>
         /\ pc[r] = "done") =>
            /\ response[r].status = 200
            /\ response[r].success
            /\ response[r].notified = 0
            /\ response[r].failed = 0
            /\ response[r].total = 0
            /\ bulkCalls[r] = <<>>
            /\ sends[r] = <<>>

\* C7 amended: /notify-batch with an empty token list is rejected by the
\* validation with status 400 "Missing or invalid tokens array", success false
\* and no counts, and calls the provider not at all.
C7_EmptyDispatchRejected ==
    \A r \in Reqs :
        (/\ kind[r] = "batch"
         /\ firebaseInitialized
         /\ input[r].tokensIsArray
         /\ input[r].tokens = <<>>) =>
            /\ bulkCalls[r] = <<>>
            /\ sends[r] = <<>>
            /\ pc[r] = "done" =>
                   /\ response[r].status = 400
                   /\ ~response[r].success
                   /\ response[r].error = "Missing or invalid tokens array"
                   /\ response[r].notified = -1
                   /\ response[r].failed = -1
                   /\ response[r].total = -1

\* C7 witness: an initialized server has answered a request whose token list is
\* an empty array and whose title and body are present.
C7_Witness ==
    \E r \in Reqs :
        /\ kind[r] = "batch"
        /\ firebaseInitialized
        /\ input[r].tokensIsArray
        /\ input[r].required
        /\ input[r].tokens = <<>>
        /\ pc[r] = "done"

\* a /notify-task request whose recipients are resolved: it is sending, or it
\* has answered 200
Resolved(r) ==
    /\ kind[r] = "task"
    /\ pc[r] = "send" \/ (pc[r] = "done" /\ response[r].status = 200)

\* the acting user is the owner: the project names an owner whose record exists
\* and whose email is the acting identifier
ActingIsOwner(r) ==
    /\ projectDoc.known /\ projectDoc.exists
    /\ projectDoc.createdBy # NoUid
    /\ userDocs[projectDoc.createdBy].known
    /\ userDocs[projectDoc.createdBy].exists
    /\ userDocs[projectDoc.createdBy].email = input[r].addedBy

\* the member-list entries that are not the owner and whose record exists and
\* has a token, in list order
ReachableMembers ==
    SelectSeq(projectDoc.users,
              LAMBDA uid : /\ uid # projectDoc.createdBy
                           /\ userDocs[uid].exists
                           /\ userDocs[uid].fcmToken # NoToken)

\* C8: when the acting user is the owner, the resolved tokens are those of the
\* members other than the owner whose record exists and has a token, in
\* membership order, with one label each; the owner's record is not read for a
\* token, and a request that got that far fails only when a store read rejects.
C8_OwnerNotifiesMembers ==
    \A r \in Reqs :
        /\ (Resolved(r) /\ ActingIsOwner(r)) =>
               /\ targetTokens[r] =
                      [n \in 1..Len(ReachableMembers) |-> userDocs[ReachableMembers[n]].fcmToken]
               /\ recipients[r] =
                      [n \in 1..Len(ReachableMembers) |->
                          LabelOf(userDocs[ReachableMembers[n]], ReachableMembers[n])]
               /\ \A n \in 3..Len(reads[r]) : reads[r][n] # ReadOf("users", projectDoc.createdBy)
        /\ (kind[r] = "task" /\ ActingIsOwner(r) /\ pc[r] = "done") =>
               \/ response[r].status = 200
               \/ /\ response[r].status = 500
                  /\ response[r].error = "Failed to send notifications"
                  /\ sends[r] = <<>>

\* C8 witness: the owner added a task to a project of three listed members, the
\* owner among them, one of the other two without a token and one with.
C8_Witness ==
    \E r \in Reqs :
        /\ Resolved(r) /\ ActingIsOwner(r)
        /\ Len(projectDoc.users) = 3
        /\ \E n \in 1..3 : projectDoc.users[n] = projectDoc.createdBy
        /\ \E n \in 1..3 : /\ projectDoc.users[n] # projectDoc.createdBy
                           /\ userDocs[projectDoc.users[n]].exists
                           /\ userDocs[projectDoc.users[n]].fcmToken = NoToken
        /\ Len(targetTokens[r]) = 1
        /\ userDocs[projectDoc.createdBy].fcmToken # NoToken
        /\ pc[r] = "done"

\* C9: when the acting user is not the owner, the resolved list is the owner's
\* token if the project names an owner whose record exists and has a token, and
\* is empty otherwise; no record but the owner's is read and no other token is
\* sent to.
C9_MemberNotifiesOwner ==
    \A r \in Reqs :
        (Resolved(r) /\ ~ActingIsOwner(r)) =>
            LET owner == projectDoc.createdBy
                reachable == /\ owner # NoUid
                             /\ userDocs[owner].exists
                             /\ userDocs[owner].fcmToken # NoToken
            IN  /\ Len(targetTokens[r]) <= 1
                /\ targetTokens[r] =
                       IF reachable THEN <<userDocs[owner].fcmToken>> ELSE <<>>
                /\ Len(recipients[r]) = Len(targetTokens[r])
                /\ \A n \in 2..Len(reads[r]) : reads[r][n] = ReadOf("users", owner)
                /\ \A n \in 1..Len(sends[r]) : sends[r][n].token = userDocs[owner].fcmToken
                /\ Len(sends[r]) <= 1

\* C9 witness: a member other than the owner added a task to a project that
\* lists two other members with tokens, and the owner's token was sent to.
C9_Witness ==
    \E r \in Reqs :
        /\ Resolved(r) /\ ~ActingIsOwner(r)
        /\ pc[r] = "done"
        /\ Len(sends[r]) = 1
        /\ Len(projectDoc.users) >= 2
        /\ \E n \in 1..Len(projectDoc.users) : projectDoc.users[n] # projectDoc.createdBy

\* C10: the resolved token list holds each token once.
C10_TokensDeduplicated ==
    \A r \in Reqs :
        Resolved(r) =>
            \A a, b \in 1..Len(targetTokens[r]) :
                a # b => targetTokens[r][a] # targetTokens[r][b]

\* the inner catch of /notify-task answered: a store read rejected
StoreFailed(r) ==
    response[r].status = 500 /\ response[r].error = "Failed to send notifications"

\* a /notify-task request that has answered after all the reads it issued resolved
TaskAnswered(r) ==
    /\ kind[r] = "task"
    /\ pc[r] = "done"
    /\ reads[r] # <<>>
    /\ ~StoreFailed(r)

OwnerRecordAbsent ==
    /\ projectDoc.exists
    /\ projectDoc.createdBy # NoUid
    /\ userDocs[projectDoc.createdBy].known
    /\ ~userDocs[projectDoc.createdBy].exists

C13_ProjectNotFound ==
    \A r \in Reqs :
        (kind[r] = "task" /\ projectDoc.known /\ ~projectDoc.exists) =>
            /\ \A n \in 1..Len(reads[r]) : reads[r][n].coll = "projects"
            /\ Len(reads[r]) <= 1
            /\ sends[r] = <<>>
            /\ bulkCalls[r] = <<>>
            /\ TaskAnswered(r) =>
                   response[r] = ErrorResponse(404, "Project not found")

\* C13 witness: a request answered after its project read found no record.
C13_Witness ==
    \E r \in Reqs : TaskAnswered(r) /\ projectDoc.known /\ ~projectDoc.exists

\* the tokens the store holds for the request's recipients: the reachable
\* members' when the acting user is the owner, the owner's otherwise
StoreTargets(r) ==
    IF ActingIsOwner(r)
    THEN [n \in 1..Len(ReachableMembers) |-> userDocs[ReachableMembers[n]].fcmToken]
    ELSE IF /\ projectDoc.createdBy # NoUid
            /\ userDocs[projectDoc.createdBy].exists
            /\ userDocs[projectDoc.createdBy].fcmToken # NoToken
         THEN <<userDocs[projectDoc.createdBy].fcmToken>>
         ELSE <<>>

\* C14: when the store holds no token for any recipient of the request,
\* /notify-task answers 200 with success true and notified 0 and sends nothing.
C14_EmptySetIsSuccess ==
    \A r \in Reqs :
        (TaskAnswered(r) /\ projectDoc.exists /\ StoreTargets(r) = <<>>) =>
            /\ response[r].status = 200
            /\ response[r].success
            /\ response[r].notified = 0
            /\ response[r].error = ""
            /\ sends[r] = <<>>

\* C14 witness: the owner added a task to a project whose two other members
\* are one without record and one without token.
C14_Witness ==
    \E r \in Reqs :
        /\ TaskAnswered(r) /\ ActingIsOwner(r)
        /\ StoreTargets(r) = <<>>
        /\ \E a, b \in 1..Len(projectDoc.users) :
               /\ projectDoc.users[a] # projectDoc.createdBy
               /\ projectDoc.users[b] # projectDoc.createdBy
               /\ userDocs[projectDoc.users[a]].known
               /\ ~userDocs[projectDoc.users[a]].exists
               /\ userDocs[projectDoc.users[b]].exists
               /\ userDocs[projectDoc.users[b]].fcmToken = NoToken

\* C15: once /notify-batch or /notify-task has called the provider, whatever
\* the provider answers the request ends with the 200 summary, whose failed
\* count covers every failed outcome: in /notify-batch the false entries of
\* results, in /notify-task the sends not counted as notified.
C15_ProviderErrorsAbsorbed ==
    \A r \in Reqs :
        (kind[r] \in {"batch", "task"} /\ (bulkCalls[r] # <<>> \/ sends[r] # <<>>)) =>
            /\ pc[r] \in {"sendAll", "send", "done"}
            /\ kind[r] = "batch" =>
                   /\ failureCount[r] =
                          Cardinality({n \in 1..Len(results[r]) : ~results[r][n].success})
                   /\ successCount[r] =
                          Cardinality({n \in 1..Len(results[r]) : results[r][n].success})
            /\ pc[r] = "done" =>
                   /\ response[r].status = 200
                   /\ response[r].success
                   /\ response[r].failed = failureCount[r]
                   /\ response[r].notified = successCount[r]
                   /\ kind[r] = "batch" => response[r].results = results[r]
                   /\ kind[r] = "task" =>
                          response[r].notified + response[r].failed = Len(sends[r])

\* C15 witness: a /notify-batch summary after a bulk call that returned with a
\* failed message, a bulk call that failed wholesale and a failed individual send.
C15_Witness ==
    \E r \in Reqs :
        /\ BatchDone(r)
        /\ i[r] > 0
        /\ sends[r] # <<>>
        /\ \E n \in 1..i[r] : ~results[r][n].success
        /\ \E n \in (i[r] + 1)..Len(results[r]) : ~results[r][n].success

RECURSIVE Concat(_)
\* the messages of a list of bulk calls, in call order
Concat(calls) ==
    IF calls = <<>> THEN <<>>
    ELSE Concat(SubSeq(calls, 1, Len(calls) - 1)) \o calls[Len(calls)].batch

C16_UninitializedRejectsAll ==
    /\ [](\A r \in Reqs :
            ~firebaseInitialized =>
                /\ reads[r] = <<>>
                /\ bulkCalls[r] = <<>>
                /\ sends[r] = <<>>
                /\ pc[r] \in {"start", "done"}
                /\ (kind[r] # "none" /\ pc[r] = "done") =>
                       response[r] = ErrorResponse(500, "Firebase not initialized")
                /\ pc[r] = "start" => response[r] = NoResponse)
    /\ [][firebaseInitialized' = firebaseInitialized]_vars

\* C16 witness: an uninitialized server has answered an otherwise valid request.
C16_Witness ==
    \E r \in Reqs :
        /\ ~firebaseInitialized
        /\ kind[r] # "none"
        /\ pc[r] = "done"
        /\ input[r].required
        /\ kind[r] = "batch" => (input[r].tokensIsArray /\ input[r].tokens # <<>>)

Letters ==
    {"a", "b", "c", "d", "e", "f", "g", "h", "i", "j", "k", "l", "m", "n", "o", "p",
     "q", "r", "s", "t", "u", "v", "w", "x", "y", "z"}

\* the string starts with a scheme: letters followed by a colon
IsAbsolute(str) ==
    \E n \in 2..Len(str) : str[n] = ":" /\ \A m \in 1..(n - 1) : str[m] \in Letters

\* C18: the link of every message of /notify and /notify-batch is absolute: the
\* supplied link unchanged when it starts with a scheme, the base origin
\* followed by "/" when none is supplied, and otherwise the base origin
\* followed by the link, a "/" between them unless the link starts with one.
C18_LinkAlwaysAbsolute ==
    \A r \in Reqs :
        kind[r] \in {"single", "batch"} =>
            \A n \in 1..Len(messages[r]) :
                LET supplied == input[r].data.link
                    base == IF input[r].data.origin # <<>> THEN input[r].data.origin
                            ELSE DefaultOrigin
                    link == messages[r][n].link
                IN  /\ IsAbsolute(link)
                    /\ supplied = <<>> => link = base \o <<"/">>
                    /\ (supplied # <<>> /\ IsAbsolute(supplied)) => link = supplied
                    /\ (supplied # <<>> /\ ~IsAbsolute(supplied)) =>
                           link = base \o (IF supplied[1] = "/" THEN supplied
                                           ELSE <<"/">> \o supplied)

\* C19: any two messages of one /notify-batch or /notify-task dispatch agree
\* on every field but token.
C19_MessagesDifferOnlyInToken ==
    \A r \in Reqs :
        kind[r] \in {"batch", "task"} =>
            \A a, b \in 1..Len(messages[r]) :
                [messages[r][a] EXCEPT !.token = NoToken]
                    = [messages[r][b] EXCEPT !.token = NoToken]

\* the users the store makes recipients of the request, in order: the
\* reachable members when the acting user is the owner, the owner otherwise
StoreRecipients(r) ==
    IF ActingIsOwner(r)
    THEN ReachableMembers
    ELSE IF /\ projectDoc.createdBy # NoUid
            /\ userDocs[projectDoc.createdBy].exists
            /\ userDocs[projectDoc.createdBy].fcmToken # NoToken
         THEN <<projectDoc.createdBy>>
         ELSE <<>>

\* C21: in a /notify-task dispatch with a non-empty resolved list, the
\* individual sends issued so far are one per position of the token list, in
\* list order, none repeated and none skipped, and all positions once the
\* summary is returned; the label list is as long as the token list and its
\* n-th label is the label of the user whose token is the n-th token; the
\* summary returns that label list and its notified + failed is its length.
C21_OneMessagePerRecipient ==
    \A r \in Reqs :
        (Resolved(r) /\ targetTokens[r] # <<>>) =>
            /\ Len(messages[r]) = Len(targetTokens[r])
            /\ \A n \in 1..Len(messages[r]) : messages[r][n].token = targetTokens[r][n]
            /\ Len(sends[r]) <= Len(targetTokens[r])
            /\ \A n \in 1..Len(sends[r]) :
                   sends[r][n] = [at |-> n - 1, token |-> targetTokens[r][n]]
            /\ pc[r] = "send" =>
                   /\ Len(sends[r]) = j[r] + 1
                   /\ successCount[r] + failureCount[r] = j[r]
            /\ Len(recipients[r]) = Len(targetTokens[r])
            /\ Len(StoreRecipients(r)) = Len(targetTokens[r])
            /\ \A n \in 1..Len(targetTokens[r]) :
                   LET uid == StoreRecipients(r)[n]
                   IN  /\ targetTokens[r][n] = userDocs[uid].fcmToken
                       /\ recipients[r][n] = LabelOf(userDocs[uid], uid)
            /\ pc[r] = "done" =>
                   /\ Len(sends[r]) = Len(targetTokens[r])
                   /\ response[r].recipients = recipients[r]
                   /\ response[r].notified + response[r].failed
                          = Len(response[r].recipients)
                   /\ response[r].notified = successCount[r]
                   /\ response[r].failed = failureCount[r]

\* C21 witness: the owner's dispatch to two members, the first labelled by
\* identifier and the second by email, has returned its summary with one
\* delivery failed and one made.
C21_Witness ==
    \E r \in Reqs :
        /\ Resolved(r) /\ ActingIsOwner(r)
        /\ pc[r] = "done"
        /\ Len(targetTokens[r]) = 2
        /\ targetTokens[r][1] # targetTokens[r][2]
        /\ recipients[r][1] \in Uids
        /\ recipients[r][2] \in Emails
        /\ response[r].notified = 1
        /\ response[r].failed = 1

\* the handler-local variables of request q and its logs
Locals(q) ==
    <<kind[q], pc[q], input[q], messages[q], i[q], j[q], results[q],
      successCount[q], failureCount[q], isAdmin[q], adminUid[q], assignedUsers[q],
      k[q], targetTokens[q], recipients[q], response[q], bulkCalls[q], sends[q],
      reads[q]>>

\* what request q was sent and what it has been answered so far: the
\* provider's answers are in results and in the growth of the call logs, the
\* store's in the store or a rejection, the clock's in the messages
Heard(q) ==
    <<kind[q], input[q], pc[q], messages[q], results[q], bulkCalls[q], sends[q],
      reads[q], StoreFailed(q)>>

\* what request q has computed, its summary included; the two counters of a
\* /notify-task request are left to OwnCounts, its sends log not holding the
\* provider's answers
Computed(q) ==
    <<i[q], j[q], isAdmin[q], adminUid[q], assignedUsers[q], k[q], targetTokens[q],
      recipients[q],
      IF kind[q] = "task" THEN successCount[q] + failureCount[q] ELSE successCount[q],
      IF kind[q] = "task" THEN 0 ELSE failureCount[q],
      IF kind[q] = "task" /\ response[q].status = 200
      THEN [response[q] EXCEPT !.notified = 0, !.failed = @ + response[q].notified]
      ELSE response[q]>>

\* the counters and the outcome list of request r count its own messages only
OwnCounts(r) ==
    /\ kind[r] = "batch" =>
           /\ \A n \in 1..Len(results[r]) :
                  \E m \in 1..Len(input[r].tokens) : results[r][n].token = input[r].tokens[m]
           /\ successCount[r] = Cardinality({n \in 1..Len(results[r]) : results[r][n].success})
           /\ failureCount[r] = Cardinality({n \in 1..Len(results[r]) : ~results[r][n].success})
           /\ (pc[r] = "done" /\ response[r].status = 200) =>
                  response[r] = BatchResponse(successCount[r], failureCount[r],
                                              input[r].tokens, results[r])
    /\ kind[r] = "task" =>
           /\ \A n \in 1..Len(sends[r]) : sends[r][n].token = targetTokens[r][n]
           /\ successCount[r] + failureCount[r] =
                  IF pc[r] = "send" THEN Len(sends[r]) - 1
                  ELSE IF response[r].status = 200 THEN Len(sends[r]) ELSE 0
           /\ (pc[r] = "done" /\ response[r].status = 200 /\ sends[r] # <<>>) =>
                  response[r] = TaskResponse(successCount[r], failureCount[r], recipients[r])

\* C22: with two requests in flight, interleaved at their provider and store
\* calls, (a) a step of one request changes no local variable of the other,
\* (b) each request's counters and outcome list count its own messages only,
\* and (c) what a request has computed, its summary included, is a function
\* of what it was sent and answered: two requests sent the same and answered
\* the same have computed the same, however their steps were interleaved.
C22_RequestsDoNotInterfere ==
    /\ [](\A r \in Reqs : OwnCounts(r))
    /\ [](\A r, q \in Reqs :
             (kind[r] \in {"batch", "task"} /\ Heard(r) = Heard(q)) =>
                 Computed(r) = Computed(q))
    /\ [][\E r \in Reqs : \A q \in Reqs \ {r} : Locals(q)' = Locals(q)]_vars

\* C22 witness: a /notify-batch request in its individual sends and a
\* /notify-task request in its send loop are both under way, the first with
\* one delivery made and none failed, the second with one failed and none made.
C22_Witness ==
    /\ kind[1] = "batch" /\ pc[1] = "send"
    /\ successCount[1] = 1 /\ failureCount[1] = 0
    /\ kind[2] = "task" /\ pc[2] = "send"
    /\ successCount[2] = 0 /\ failureCount[2] = 1

====
